---- MODULE Spec2Model ----
(***************************************************************************)
(* PolicyNetwork (src/policy.py): construction of the convolution stack,   *)
(* variable initialisation and checkpointing, minibatch training and       *)
(* evaluation, summary writing and the inference facade.                   *)
(*                                                                         *)
(* Numbers.  Tensors are kept with their exact shape and one abstract      *)
(* value per tensor (per cell for the bias).  Probabilities are fixed      *)
(* point numbers 0 .. Scale; exp underflows to 0 as float32 does.  A float *)
(* that may be non-finite is a record [kind, v] with kind "fin", "ninf",   *)
(* "inf" or "nan".                                                         *)
(***************************************************************************)
EXTENDS Integers, Sequences, FiniteSets, TLC

\* ---------------------------------------------------------------- bounds
BoardN == 2          \* go.N of the model (19 in the program)
MaxLayers == 1       \* largest num_int_conv_layers constructed
MaxD == 3            \* largest data_size passed to train / check_accuracy
MaxB == 2            \* largest batch_size passed
MaxStep == 2         \* cap on global_step
MaxW == 2            \* weights are kept in -MaxW .. MaxW
MaxEvents == 2       \* cap on the events held by one summary writer
MaxLogged == 4       \* the same cap, where the writers are what is checked
FracBits == 6        \* fixed point: probability 1.0 is 2^FracBits

\* ------------------------------------------------------ program constants
K == 32              \* default k
NumInputPlanes == 48 \* planes of the feature stack

Insts == {"p", "q"}
Paths == {"ckpt"}
NumCells == BoardN * BoardN
Cells == 1 .. NumCells      \* flat index i of the program is cell i + 1
Seeds == {1, 2}
DataSizes == 0 .. MaxD
BatchSizes == {0, 1, MaxB}

\* ------------------------------------------------------------ arithmetic
\* a vector over the cells, or over the examples of a batch, is a sequence;
\* Vec evaluates every entry of f once
Vec(f) == f \o <<>>

RECURSIVE SumTo(_, _)
SumTo(s, n) == IF n = 0 THEN 0 ELSE s[n] + SumTo(s, n - 1)

Sum(s) == SumTo(s, Len(s))

RECURSIVE MaxTo(_, _)
MaxTo(s, n) ==
    IF n = 1 THEN s[1]
    ELSE IF MaxTo(s, n - 1) >= s[n] THEN MaxTo(s, n - 1) ELSE s[n]

Sign(v) == IF v > 0 THEN 1 ELSE IF v < 0 THEN -1 ELSE 0

Clip(v) == IF v > MaxW THEN MaxW ELSE IF v < -MaxW THEN -MaxW ELSE v

RECURSIVE Pow2(_)
Pow2(n) == IF n <= 0 THEN 1 ELSE 2 * Pow2(n - 1)

Scale == Pow2(FracBits)

\* exp(-gap) in fixed point; gaps too large underflow to exactly 0
ExpNeg(gap) == IF gap > FracBits THEN 0 ELSE Scale \div Pow2(gap)

Fin(v) == [kind |-> "fin", v |-> v]
NegInf == [kind |-> "ninf", v |-> 0]
PosInf == [kind |-> "inf", v |-> 0]
NaN == [kind |-> "nan", v |-> 0]

IsFinite(a) == a.kind = "fin"

RECURSIVE Halvings(_)
Halvings(p) == IF p >= Scale THEN 0 ELSE 1 + Halvings(2 * p)

\* tf.log of a fixed point probability: log(0) is -inf
tf_log(p) == IF p = 0 THEN NegInf ELSE Fin(0 - Halvings(p))

\* tf.mul of a float by a label entry (0 or 1): -inf * 0 is nan
tf_mul(a, y) ==
    IF a.kind = "fin" THEN Fin(a.v * y)
    ELSE IF a.kind = "nan" THEN NaN
    ELSE IF y = 0 THEN NaN
    ELSE a

\* float addition of values that are finite, infinite or nan
tf_add(a, b) ==
    IF a.kind = "nan" \/ b.kind = "nan" THEN NaN
    ELSE IF a.kind = "fin" /\ b.kind = "fin" THEN Fin(a.v + b.v)
    ELSE IF a.kind = "fin" THEN b
    ELSE IF b.kind = "fin" THEN a
    ELSE IF a.kind = b.kind THEN a
    ELSE NaN

tf_neg(a) ==
    IF a.kind = "fin" THEN Fin(0 - a.v)
    ELSE IF a.kind = "ninf" THEN PosInf
    ELSE IF a.kind = "inf" THEN NegInf
    ELSE NaN

RECURSIVE reduce_sum_to(_, _)
reduce_sum_to(s, n) ==
    IF n = 0 THEN Fin(0) ELSE tf_add(s[n], reduce_sum_to(s, n - 1))

\* tf.reduce_sum
reduce_sum(s) == reduce_sum_to(s, Len(s))

\* ------------------------------------------------------------- the graph
Tensor(shape, val) == [shape |-> shape, val |-> val]

\* _weight_variable: a variable of the given shape; it holds no value until
\* its initialiser runs
_weight_variable(shape) == Tensor(shape, 0)

ZeroBias == Vec([c \in Cells |-> 0])

\* set_up_network: the variables of the graph, or the IndexError raised by
\* h_conv_intermediate[-1] when the list of intermediate layers is empty
set_up_network(n) ==
    LET W_conv_init == _weight_variable(<<5, 5, NumInputPlanes, K>>)
        W_conv_intermediate == [i \in 1 .. n |-> _weight_variable(<<3, 3, K, K>>)]
        W_conv_final == _weight_variable(<<1, 1, K, 1>>)
        b_conv_final == Tensor(<<NumCells>>, ZeroBias)
    IN  [error |-> IF Len(W_conv_intermediate) = 0 THEN "IndexError" ELSE "none",
         vars |-> [W_conv_init |-> W_conv_init,
                   W_conv_intermediate |-> W_conv_intermediate,
                   W_conv_final |-> W_conv_final,
                   b_conv_final |-> b_conv_final,
                   global_step |-> 0]]

NoVars ==
    [W_conv_init |-> Tensor(<<>>, 0), W_conv_intermediate |-> <<>>,
     W_conv_final |-> Tensor(<<>>, 0), b_conv_final |-> Tensor(<<>>, ZeroBias),
     global_step |-> 0]

\* tf.truncated_normal(shape, stddev = 1/sqrt(fan_in)): the value drawn is a
\* function of the generator's seed and of the tensor's place in the graph
truncated_normal(seed, idx) == 1 + ((seed + idx) % 2)

\* tf.initialize_all_variables: every variable takes its initial value
initialize_all_variables(v, seed) ==
    [W_conv_init |-> Tensor(v.W_conv_init.shape, truncated_normal(seed, 0)),
     W_conv_intermediate |->
        [i \in 1 .. Len(v.W_conv_intermediate) |->
            Tensor(v.W_conv_intermediate[i].shape, truncated_normal(seed, i))],
     W_conv_final |->
        Tensor(v.W_conv_final.shape,
               truncated_normal(seed, Len(v.W_conv_intermediate) + 1)),
     b_conv_final |-> Tensor(v.b_conv_final.shape, ZeroBias),
     global_step |-> 0]

\* the weight tensors in graph order
Weights(v) == <<v.W_conv_init>> \o v.W_conv_intermediate \o <<v.W_conv_final>>

Shapes(v) == [i \in 1 .. Len(Weights(v)) |-> Weights(v)[i].shape]

relu(h) == Vec([c \in Cells |-> IF h[c] > 0 THEN h[c] ELSE 0])

_conv2d(x, W) == Vec([c \in Cells |-> x[c] * W.val])

\* h_conv_init (n = 0) and h_conv_intermediate[n - 1] (n >= 1)
RECURSIVE h_conv(_, _, _)
h_conv(v, x, n) ==
    IF n = 0 THEN relu(_conv2d(x, v.W_conv_init))
    ELSE relu(_conv2d(h_conv(v, x, n - 1), v.W_conv_intermediate[n]))

h_conv_final(v, x) ==
    _conv2d(h_conv(v, x, Len(v.W_conv_intermediate)), v.W_conv_final)

Normalise(e, total) == Vec([c \in Cells |-> (e[c] * Scale) \div total])

Exponentials(logits, top) == Vec([c \in Cells |-> ExpNeg(top - logits[c])])

SoftmaxOf(e) == Normalise(e, Sum(e))

\* tf.nn.softmax: exp(logit - max) / sum
softmax(logits) == SoftmaxOf(Exponentials(logits, MaxTo(logits, NumCells)))

AddBias(h, b) == Vec([c \in Cells |-> h[c] + b[c]])

output(v, x) == softmax(AddBias(h_conv_final(v, x), v.b_conv_final.val))

\* the output for every example of a batch
outputs(v, batch) == Vec([j \in 1 .. Len(batch) |-> output(v, batch[j].x)])

\* tf.argmax: the first index holding the maximum
argmax(f) == CHOOSE c \in Cells :
    /\ \A d \in Cells : f[d] <= f[c]
    /\ \A d \in Cells : f[d] = f[c] => c <= d

\* sum over the move slots of log(output) * y, for one example
example_log_likelihood(p, y) ==
    reduce_sum(Vec([c \in Cells |-> tf_mul(tf_log(p[c]), y[c])]))

\* log_likelihood_cost of a batch whose outputs are p, times the batch size
\* (the mean is over the examples, and every batch has batch_size examples)
log_likelihood_cost(batch, p) ==
    tf_neg(reduce_sum(Vec([j \in 1 .. Len(batch) |->
                                example_log_likelihood(p[j], batch[j].y)])))

\* accuracy of a batch whose outputs are p, times the batch size
accuracy(batch, p) ==
    Cardinality({j \in 1 .. Len(batch) : argmax(p[j]) = argmax(batch[j].y)})

\* d cost / d logit of every cell, summed over the batch
LogitGradient(batch, p) ==
    Vec([c \in Cells |->
            Sum(Vec([j \in 1 .. Len(batch) |-> p[j][c] - Scale * batch[j].y[c]]))])

\* d cost / d weight, summed over the batch: the logit gradient of the cells
\* the features mark
WeightGradient(batch, p) ==
    Sum(Vec([j \in 1 .. Len(batch) |->
                Sum(Vec([c \in Cells |->
                        (p[j][c] - Scale * batch[j].y[c]) * batch[j].x[c]]))]))

Descend(W, g) == Tensor(W.shape, Clip(W.val - Sign(g)))

ApplyGradients(v, g, gW) ==
    [W_conv_init |-> Descend(v.W_conv_init, gW),
     W_conv_intermediate |->
        [i \in 1 .. Len(v.W_conv_intermediate) |-> Descend(v.W_conv_intermediate[i], gW)],
     W_conv_final |-> Descend(v.W_conv_final, gW),
     b_conv_final |->
        Tensor(v.b_conv_final.shape,
               Vec([c \in Cells |-> Clip(v.b_conv_final.val[c] - Sign(g[c]))])),
     global_step |-> v.global_step + 1]

\* AdamOptimizer(1e-4).minimize(cost, global_step) on a batch whose outputs
\* are p: every weight tensor and the bias move against the sign of their
\* gradient (softmax minus label, taken analytically), and global_step is
\* advanced by one
train_step(v, batch, p) ==
    ApplyGradients(v, LogitGradient(batch, p), WeightGradient(batch, p))

\* ------------------------------------------------------- collaborators
OneHot(s) == Vec([c \in Cells |-> IF c = s THEN 1 ELSE 0])

\* example e of a dataset: a feature plane and a one-hot label
Example(e) ==
    [x |-> OneHot(1 + (e % NumCells)),
     y |-> OneHot(1 + (IF e % 2 = 0 THEN e % NumCells ELSE (e + 1) % NumCells))]

\* the j-th call (from 0) of get_batch(n) on a dataset: the next n examples
get_batch(j, n) == Vec([k \in 1 .. n |-> Example(j * n + k - 1)])

\* board positions, as the set of cells the feature plane marks
Positions == {{}, {1}, {NumCells}}

\* features.DEFAULT_FEATURES.extract
extract(position) == Vec([c \in Cells |-> IF c \in position THEN 1 ELSE 0])

\* utils.unflatten_coords
unflatten_coords(i) == <<i \div BoardN, i % BoardN>>

\* ------------------------------------------------------------------ state
VARIABLES
    constructed,              \* per instance: "no", "ok" or the error of __init__
    num_int_conv_layers,      \* per instance: self.num_int_conv_layers
    initialized,              \* per instance: the session's variables hold values
    session,                  \* per instance: the values of the graph's variables
    training_summary_writer,  \* per instance: None, or the events written
    test_summary_writer,      \* per instance: None, or the events written
    files,                    \* the checkpoint files
    last                      \* the call that just returned, and what it did

vars == <<constructed, num_int_conv_layers, initialized, session,
          training_summary_writer, test_summary_writer, files, last>>

None == [attached |-> FALSE, events |-> <<>>]
SummaryWriter == [attached |-> TRUE, events |-> <<>>]
NoFile == [exists |-> FALSE, layers |-> 0, vars |-> NoVars]

\* a summary written under a global_step; batch is the batch the summary was
\* computed from (-1 when it was computed from no batch)
Event(kind, step, batch) == [kind |-> kind, global_step |-> step, batch |-> batch]

\* SummaryWriter.add_summary(summary, global_step)
add_summary(writer, event) ==
    [attached |-> writer.attached, events |-> Append(writer.events, event)]

Call(op, i) ==
    [op |-> op, inst |-> i, data_size |-> 0, batch_size |-> 0, error |-> "none",
     get_batch_calls |-> 0, forward_steps |-> 0, printed |-> <<>>,
     before |-> session[i],
     events_before |-> <<Len(training_summary_writer[i].events),
                         Len(test_summary_writer[i].events)>>,
     avg_cost |-> Fin(0), position |-> {}, result |-> <<>>,
     save_file |-> "None"]

Init ==
    /\ constructed = [i \in Insts |-> "no"]
    /\ num_int_conv_layers = [i \in Insts |-> 0]
    /\ initialized = [i \in Insts |-> FALSE]
    /\ session = [i \in Insts |-> NoVars]
    /\ training_summary_writer = [i \in Insts |-> None]
    /\ test_summary_writer = [i \in Insts |-> None]
    /\ files = [f \in Paths |-> NoFile]
    /\ last = [op |-> "none", inst |-> "p", data_size |-> 0, batch_size |-> 0,
               error |-> "none", get_batch_calls |-> 0, forward_steps |-> 0,
               printed |-> <<>>, before |-> NoVars, events_before |-> <<0, 0>>,
               avg_cost |-> Fin(0), position |-> {}, result |-> <<>>,
     save_file |-> "None"]

Ready(i) == constructed[i] = "ok" /\ initialized[i]

\* ------------------------------------------------------------- operations
\* PolicyNetwork(num_input_planes, k, num_int_conv_layers)
__init__(i, n) ==
    /\ constructed[i] = "no"
    /\ LET net == set_up_network(n)
       IN  /\ constructed' = [constructed EXCEPT ![i] =
                                IF net.error = "none" THEN "ok" ELSE net.error]
           /\ session' = [session EXCEPT ![i] =
                                IF net.error = "none" THEN net.vars ELSE NoVars]
           /\ last' = [Call("__init__", i) EXCEPT !.error = net.error]
    /\ num_int_conv_layers' = [num_int_conv_layers EXCEPT ![i] = n]
    /\ UNCHANGED <<initialized, training_summary_writer, test_summary_writer, files>>

initialize_logging(i) ==
    /\ constructed[i] = "ok"
    /\ ~training_summary_writer[i].attached
    /\ test_summary_writer' = [test_summary_writer EXCEPT ![i] = SummaryWriter]
    /\ training_summary_writer' = [training_summary_writer EXCEPT ![i] = SummaryWriter]
    /\ last' = Call("initialize_logging", i)
    /\ UNCHANGED <<constructed, num_int_conv_layers, initialized, session, files>>

\* a Saver that restores the trainable variables alone
restore_weights_only(v, checkpoint) ==
    [checkpoint EXCEPT !.global_step = v.global_step]

\* Saver.restore: every variable of the graph takes its value in the file
restore(v, checkpoint) == checkpoint

\* a Saver created before b_conv_final: the bias is not written
save_without_bias(v) == [v EXCEPT !.b_conv_final = Tensor(@.shape, ZeroBias)]

\* Saver.save: the value of every variable of the graph
save(v) == v

\* initialize_variables(save_file = None)
initialize_fresh(i, seed) ==
    /\ constructed[i] = "ok"
    /\ session' = [session EXCEPT ![i] = initialize_all_variables(session[i], seed)]
    /\ initialized' = [initialized EXCEPT ![i] = TRUE]
    /\ last' = Call("initialize_variables", i)
    /\ UNCHANGED <<constructed, num_int_conv_layers, training_summary_writer,
                   test_summary_writer, files>>

\* initialize_variables(save_file), the file written by a network of the same
\* configuration; a missing file is an error that leaves the session as it was
initialize_restore(i, save_file) ==
    /\ constructed[i] = "ok"
    /\ files[save_file].exists => files[save_file].layers = num_int_conv_layers[i]
    /\ IF files[save_file].exists
       THEN /\ session' = [session EXCEPT ![i] =
                            restore(session[i], files[save_file].vars)]
            /\ initialized' = [initialized EXCEPT ![i] = TRUE]
            /\ last' = [Call("initialize_variables", i) EXCEPT !.save_file = save_file]
       ELSE /\ UNCHANGED <<session, initialized>>
            /\ last' = [Call("initialize_variables", i) EXCEPT
                            !.save_file = save_file, !.error = "NotFoundError"]
    /\ UNCHANGED <<constructed, num_int_conv_layers, training_summary_writer,
                   test_summary_writer, files>>

save_variables(i, save_file) ==
    /\ Ready(i)
    /\ files' = [files EXCEPT ![save_file] =
                    [exists |-> TRUE, layers |-> num_int_conv_layers[i],
                     vars |-> save(session[i])]]
    /\ last' = [Call("save_variables", i) EXCEPT !.save_file = save_file]
    /\ UNCHANGED <<constructed, num_int_conv_layers, initialized, session,
                   training_summary_writer, test_summary_writer>>

\* a last, partial batch counted as a batch
NumMinibatchesCeil(data_size, batch_size) ==
    (data_size + batch_size - 1) \div batch_size

\* data_size // batch_size, for batch_size > 0
NumMinibatches(data_size, batch_size) == data_size \div batch_size

Pass(v) ==
    [vars |-> v, aggregate_accuracy |-> 0, aggregate_cost |-> Fin(0),
     get_batch_calls |-> 0, forward_steps |-> 0]

\* session.run([train_step, accuracy, log_likelihood_cost]) on a batch whose
\* outputs are p
RunTraining(pass, batch, p) ==
    [vars |-> train_step(pass.vars, batch, p),
     aggregate_accuracy |-> pass.aggregate_accuracy + accuracy(batch, p),
     aggregate_cost |-> tf_add(pass.aggregate_cost, log_likelihood_cost(batch, p)),
     get_batch_calls |-> pass.get_batch_calls + 1,
     forward_steps |-> pass.forward_steps + 1]

\* one iteration of train's loop on the batch get_batch returned
TrainBody(pass, batch) == RunTraining(pass, batch, outputs(pass.vars, batch))

\* for i in range(num_minibatches), from iteration j on
RECURSIVE TrainLoop(_, _, _, _)
TrainLoop(pass, batch_size, j, num_minibatches) ==
    IF j >= num_minibatches THEN pass
    ELSE TrainLoop(TrainBody(pass, get_batch(j, batch_size)),
                   batch_size, j + 1, num_minibatches)

\* an evaluation that also fetches train_step
eval_step_training(v, batch, p) == train_step(v, batch, p)

\* the variables after session.run([accuracy, log_likelihood_cost]): no
\* variable is assigned
eval_step(v, batch, p) == v

\* session.run([accuracy, log_likelihood_cost]) on a batch whose outputs are p
RunEvaluation(pass, batch, p) ==
    [vars |-> eval_step(pass.vars, batch, p),
     aggregate_accuracy |-> pass.aggregate_accuracy + accuracy(batch, p),
     aggregate_cost |-> tf_add(pass.aggregate_cost, log_likelihood_cost(batch, p)),
     get_batch_calls |-> pass.get_batch_calls + 1,
     forward_steps |-> pass.forward_steps + 1]

\* one iteration of check_accuracy's loop
EvalBody(pass, batch) == RunEvaluation(pass, batch, outputs(pass.vars, batch))

RECURSIVE EvalLoop(_, _, _, _)
EvalLoop(pass, batch_size, j, num_minibatches) ==
    IF j >= num_minibatches THEN pass
    ELSE EvalLoop(EvalBody(pass, get_batch(j, batch_size)),
                  batch_size, j + 1, num_minibatches)

\* a mean that answers 0 for an empty pass instead of raising
MeanOrZero(aggregate, num_minibatches, batch_size) ==
    [error |-> "none", sum |-> aggregate,
     over |-> IF num_minibatches = 0 THEN 1 ELSE num_minibatches * batch_size]

\* aggregate / num_minibatches: ZeroDivisionError when num_minibatches is 0,
\* else the mean as the pair of the sum and what it is divided by
Mean(aggregate, num_minibatches, batch_size) ==
    IF num_minibatches = 0
    THEN [error |-> "ZeroDivisionError", sum |-> aggregate, over |-> 0]
    ELSE [error |-> "none", sum |-> aggregate, over |-> num_minibatches * batch_size]

\* print("Step %d ... accuracy: %g; cost: %g")
Line(step, avg_accuracy, avg_cost) ==
    [global_step |-> step, accuracy |-> avg_accuracy, cost |-> avg_cost]

\* a summary run that also fetches train_step
summary_run_stepping(v, batch) == [v EXCEPT !.global_step = @ + 1]

\* session.run(self.activation_summaries, feed_dict): no variable is assigned
summary_run(v, batch) == v

\* activation summaries taken from the first batch of the pass
TrainingEventsFirstBatch(writer, global_step, batch_index) ==
    add_summary(
        add_summary(writer, Event("activation_summaries", global_step, 0)),
        Event("accuracy_summaries", global_step, -1))

\* the writer after train's two add_summary calls
TrainingEvents(writer, global_step, batch_index) ==
    add_summary(
        add_summary(writer, Event("activation_summaries", global_step, batch_index)),
        Event("accuracy_summaries", global_step, -1))

\* train after its loop: the means, the log line and the summaries
TrainReport(i, data_size, batch_size, num_minibatches, pass) ==
    /\ LET avg_accuracy == Mean(pass.aggregate_accuracy, num_minibatches, batch_size)
           avg_cost == Mean(pass.aggregate_cost, num_minibatches, batch_size)
           global_step == pass.vars.global_step
           writer == training_summary_writer[i]
       IN  IF avg_accuracy.error # "none"
           THEN \* line 155 raises
                /\ session' = [session EXCEPT ![i] = pass.vars]
                /\ last' = [Call("train", i) EXCEPT
                                !.data_size = data_size, !.batch_size = batch_size,
                                !.get_batch_calls = pass.get_batch_calls,
                                !.forward_steps = pass.forward_steps,
                                !.error = avg_accuracy.error]
                /\ UNCHANGED training_summary_writer
           ELSE /\ session' = [session EXCEPT ![i] =
                     IF writer.attached
                     THEN summary_run(pass.vars, get_batch(num_minibatches - 1, batch_size))
                     ELSE pass.vars]
                /\ training_summary_writer' =
                     [training_summary_writer EXCEPT ![i] =
                        IF writer.attached
                        THEN TrainingEvents(writer, global_step, num_minibatches - 1)
                        ELSE writer]
                /\ last' = [Call("train", i) EXCEPT
                     !.data_size = data_size, !.batch_size = batch_size,
                     !.get_batch_calls = pass.get_batch_calls,
                     !.forward_steps = pass.forward_steps,
                     !.printed = <<Line(global_step, avg_accuracy, avg_cost)>>,
                     !.avg_cost = avg_cost.sum]

train(i, data_size, batch_size) ==
    /\ Ready(i)
    /\ IF batch_size = 0
       THEN \* line 145 raises ZeroDivisionError
            /\ last' = [Call("train", i) EXCEPT
                            !.data_size = data_size, !.batch_size = batch_size,
                            !.error = "ZeroDivisionError"]
            /\ UNCHANGED <<session, training_summary_writer>>
       ELSE TrainReport(i, data_size, batch_size,
                        NumMinibatches(data_size, batch_size),
                        TrainLoop(Pass(session[i]), batch_size, 0,
                                  NumMinibatches(data_size, batch_size)))
    /\ UNCHANGED <<constructed, num_int_conv_layers, initialized,
                   test_summary_writer, files>>

\* the writer after check_accuracy's two add_summary calls
TestEvents(writer, global_step) ==
    add_summary(
        add_summary(writer, Event("weight_summaries", global_step, -1)),
        Event("accuracy_summaries", global_step, -1))

\* check_accuracy after its loop: the means, the log line and the summaries
TestReport(i, data_size, batch_size, num_minibatches, pass) ==
    /\ session' = [session EXCEPT ![i] = pass.vars]
    /\ LET avg_accuracy == Mean(pass.aggregate_accuracy, num_minibatches, batch_size)
           avg_cost == Mean(pass.aggregate_cost, num_minibatches, batch_size)
           global_step == pass.vars.global_step
           writer == test_summary_writer[i]
       IN  IF avg_accuracy.error # "none"
           THEN \* line 189 raises
                /\ last' = [Call("check_accuracy", i) EXCEPT
                                !.data_size = data_size, !.batch_size = batch_size,
                                !.get_batch_calls = pass.get_batch_calls,
                                !.forward_steps = pass.forward_steps,
                                !.error = avg_accuracy.error]
                /\ UNCHANGED test_summary_writer
           ELSE /\ test_summary_writer' =
                     [test_summary_writer EXCEPT ![i] =
                        IF writer.attached
                        THEN TestEvents(writer, global_step)
                        ELSE writer]
                /\ last' = [Call("check_accuracy", i) EXCEPT
                     !.data_size = data_size, !.batch_size = batch_size,
                     !.get_batch_calls = pass.get_batch_calls,
                     !.forward_steps = pass.forward_steps,
                     !.printed = <<Line(global_step, avg_accuracy, avg_cost)>>,
                     !.avg_cost = avg_cost.sum]

check_accuracy(i, data_size, batch_size) ==
    /\ Ready(i)
    /\ IF batch_size = 0
       THEN \* line 177 raises ZeroDivisionError
            /\ last' = [Call("check_accuracy", i) EXCEPT
                            !.data_size = data_size, !.batch_size = batch_size,
                            !.error = "ZeroDivisionError"]
            /\ UNCHANGED <<session, test_summary_writer>>
       ELSE TestReport(i, data_size, batch_size,
                       NumMinibatches(data_size, batch_size),
                       EvalLoop(Pass(session[i]), batch_size, 0,
                                NumMinibatches(data_size, batch_size)))
    /\ UNCHANGED <<constructed, num_int_conv_layers, initialized,
                   training_summary_writer, files>>

\* Python's order on (probability, move) tuples
TupleLess(a, b) ==
    \/ a[1] < b[1]
    \/ a[1] = b[1] /\ a[2][1] < b[2][1]
    \/ a[1] = b[1] /\ a[2][1] = b[2][1] /\ a[2][2] < b[2][2]

Remove(list, k) ==
    Vec([j \in 1 .. Len(list) - 1 |-> IF j < k THEN list[j] ELSE list[j + 1]])

\* the list as enumerated, not sorted
unsorted(list) == list

\* sorted(list, reverse=True)
RECURSIVE sorted_reverse(_)
sorted_reverse(list) ==
    IF list = <<>> THEN <<>>
    ELSE LET k == CHOOSE k \in 1 .. Len(list) :
                    /\ \A j \in 1 .. Len(list) : ~TupleLess(list[k], list[j])
                    /\ \A j \in 1 .. k - 1 : TupleLess(list[j], list[k])
         IN  <<list[k]>> \o sorted_reverse(Remove(list, k))

\* [(prob, utils.unflatten_coords(i)) for i, prob in enumerate(probabilities)]
move_probs(probabilities) ==
    Vec([j \in 1 .. NumCells |-> <<probabilities[j], unflatten_coords(j - 1)>>])

run(i, position) ==
    /\ Ready(i)
    /\ LET processed_position == extract(position)
           probabilities == output(session[i], processed_position)
       IN  last' = [Call("run", i) EXCEPT
                        !.forward_steps = 1, !.position = position,
                        !.result = sorted_reverse(move_probs(probabilities))]
    /\ UNCHANGED <<constructed, num_int_conv_layers, initialized, session,
                   training_summary_writer, test_summary_writer, files>>

\* the bounds of the model: a pass is taken while the step counter and the
\* writer it reports to have room for it
HasRoom(writer, events) ==
    writer.attached => Len(writer.events) + 2 <= events

TrainRoom(i, data_size, batch_size, events) ==
    /\ Ready(i)
    /\ (batch_size > 0 /\ data_size \div batch_size > 0) =>
           /\ session[i].global_step + (data_size \div batch_size) <= MaxStep
           /\ HasRoom(training_summary_writer[i], events)

TestRoom(i, data_size, batch_size, events) ==
    /\ Ready(i)
    /\ (batch_size > 0 /\ data_size \div batch_size > 0) =>
           HasRoom(test_summary_writer[i], events)

\* one network, trained, evaluated, queried and logged
Trainee == "p"

Next ==
    \/ \E n \in 0 .. MaxLayers : __init__(Trainee, n)
    \/ initialize_logging(Trainee)
    \/ \E seed \in Seeds : initialize_fresh(Trainee, seed)
    \/ \E d \in DataSizes, b \in BatchSizes :
          TrainRoom(Trainee, d, b, MaxEvents) /\ train(Trainee, d, b)
    \/ \E d \in DataSizes, b \in BatchSizes :
          TestRoom(Trainee, d, b, MaxEvents) /\ check_accuracy(Trainee, d, b)
    \/ \E position \in Positions : run(Trainee, position)

Spec == Init /\ [][Next]_vars

\* two networks of one configuration and the checkpoint files they share
NextCheckpoint ==
    \/ \E i \in Insts : __init__(i, 1)
    \/ \E i \in Insts, seed \in Seeds : initialize_fresh(i, seed)
    \/ \E i \in Insts, f \in Paths : initialize_restore(i, f)
    \/ \E i \in Insts, f \in Paths : save_variables(i, f)
    \/ \E i \in Insts, d \in {1, 2} :
          TrainRoom(i, d, 1, MaxEvents) /\ train(i, d, 1)
    \/ \E i \in Insts : check_accuracy(i, 1, 1)
    \/ \E i \in Insts : run(i, {1})

SpecCheckpoint == Init /\ [][NextCheckpoint]_vars

\* one network through several passes, with and without summary writers
NextLogging ==
    \/ __init__(Trainee, 1)
    \/ initialize_logging(Trainee)
    \/ initialize_fresh(Trainee, 1)
    \/ \E d \in {1, 2}, b \in BatchSizes :
          TrainRoom(Trainee, d, b, MaxLogged) /\ train(Trainee, d, b)
    \/ \E d \in {1, 2}, b \in BatchSizes :
          TestRoom(Trainee, d, b, MaxLogged) /\ check_accuracy(Trainee, d, b)

SpecLogging == Init /\ [][NextLogging]_vars

\* ------------------------------------------------------------------ claims
Pass_(op) == last.op = op /\ last.error = "none"

StepNow == session[last.inst].global_step

\* C1: a train call with batch_size >= 1 raises global_step by exactly
\* data_size // batch_size, one per minibatch it ran, with or without a
\* training summary writer; a check_accuracy call leaves global_step as it was.
C1_StepPerBatch ==
    /\ (last.op = "train" /\ last.batch_size >= 1) =>
          /\ StepNow = last.before.global_step + (last.data_size \div last.batch_size)
          /\ StepNow = last.before.global_step + last.forward_steps
    /\ last.op = "train" => StepNow >= last.before.global_step
    /\ last.op = "check_accuracy" => StepNow = last.before.global_step

\* a pass of two batches or more, with the training writer attached
C1_Witness ==
    /\ Pass_("train")
    /\ last.forward_steps >= 2
    /\ training_summary_writer[last.inst].attached
    /\ StepNow = last.before.global_step + last.forward_steps

\* C2: for data_size >= batch_size >= 1, train and check_accuracy call
\* get_batch exactly data_size // batch_size times and run as many forward
\* steps, so the data_size mod batch_size remainder is never requested.
C2_FloorBatches ==
    (/\ last.op \in {"train", "check_accuracy"}
     /\ last.batch_size >= 1
     /\ last.data_size >= last.batch_size) =>
        /\ last.get_batch_calls = last.data_size \div last.batch_size
        /\ last.forward_steps = last.data_size \div last.batch_size
        /\ last.get_batch_calls * last.batch_size
              = last.data_size - (last.data_size % last.batch_size)

\* a pass over a dataset that leaves a remainder
C2_Witness ==
    /\ Pass_("check_accuracy")
    /\ last.batch_size >= 2
    /\ last.data_size > last.batch_size
    /\ last.data_size % last.batch_size > 0
    /\ last.get_batch_calls >= 1

\* C3 as stated: no call leaves global_step smaller than it was before the call.
C3_NeverDecreases == StepNow >= last.before.global_step

\* C3 as amended: train, check_accuracy, run and save_variables never lower
\* global_step; initialize_variables() sets it to 0 and initialize_variables(f)
\* sets it to the global_step stored in f, whatever it was before.
C3_DecreasesOnlyOnInitialize ==
    /\ last.op \in {"train", "check_accuracy", "run", "save_variables"} =>
          StepNow >= last.before.global_step
    /\ (last.op = "initialize_variables" /\ last.save_file = "None") => StepNow = 0
    /\ (last.op = "initialize_variables" /\ last.save_file # "None"
            /\ last.error = "none") =>
          StepNow = files[last.save_file].vars.global_step
    /\ (last.op = "initialize_variables" /\ last.error # "none") =>
          StepNow = last.before.global_step

\* a restore that took a trained network back to an earlier global_step
C3_Witness ==
    /\ Pass_("initialize_variables")
    /\ last.save_file # "None"
    /\ StepNow < last.before.global_step
    /\ StepNow > 0

C5_ForwardOnly ==
    last.op \in {"check_accuracy", "run"} => session[last.inst] = last.before

\* an evaluation pass over at least one batch, with the test writer attached
C5_Witness ==
    /\ Pass_("check_accuracy")
    /\ last.forward_steps >= 1
    /\ test_summary_writer[last.inst].attached
    /\ last.before.global_step > 0

LastTwo(events) == SubSeq(events, Len(events) - 1, Len(events))

TrainingLen == Len(training_summary_writer[last.inst].events)
TestLen == Len(test_summary_writer[last.inst].events)

\* C6: without writers train and check_accuracy record nothing and fail only
\* where they fail with writers; with writers a successful train appends the
\* activation summaries of its last batch and the accuracy summaries to the
\* training writer only, a successful check_accuracy appends the weight and
\* accuracy summaries to the test writer only, all under the global_step
\* current at the end of the pass; a failed pass appends nothing.
C6_SummaryStreams ==
    /\ ~training_summary_writer[last.inst].attached => TrainingLen = 0
    /\ ~test_summary_writer[last.inst].attached => TestLen = 0
    /\ (last.op \in {"train", "check_accuracy"} /\ last.batch_size >= 1
            /\ last.data_size >= last.batch_size) =>
          last.error = "none" /\ Len(last.printed) = 1
    /\ (Pass_("train") /\ training_summary_writer[last.inst].attached) =>
          /\ TrainingLen = last.events_before[1] + 2
          /\ TestLen = last.events_before[2]
          /\ LastTwo(training_summary_writer[last.inst].events) =
                <<Event("activation_summaries", StepNow,
                        (last.data_size \div last.batch_size) - 1),
                  Event("accuracy_summaries", StepNow, -1)>>
    /\ (Pass_("check_accuracy") /\ test_summary_writer[last.inst].attached) =>
          /\ TestLen = last.events_before[2] + 2
          /\ TrainingLen = last.events_before[1]
          /\ LastTwo(test_summary_writer[last.inst].events) =
                <<Event("weight_summaries", StepNow, -1),
                  Event("accuracy_summaries", StepNow, -1)>>
    /\ (last.op \in {"train", "check_accuracy"} /\ last.error # "none") =>
          /\ TrainingLen = last.events_before[1]
          /\ TestLen = last.events_before[2]

\* a training pass of two batches, the second pass written to the training
\* writer, after a pass written to the test writer
C6_Witness ==
    /\ Pass_("train")
    /\ last.forward_steps >= 2
    /\ last.events_before = <<2, 2>>
    /\ TrainingLen = 4
    /\ training_summary_writer[last.inst].events[3].batch = last.forward_steps - 1
    /\ training_summary_writer[last.inst].events[3].global_step = StepNow
    /\ training_summary_writer[last.inst].events[1].global_step < StepNow

\* C7: train and check_accuracy with batch_size 0, or with data_size smaller
\* than batch_size, raise an error, and then no variable has changed, no line
\* has been printed and no event has been written to either writer.
C7_ConfigurationErrors ==
    (/\ last.op \in {"train", "check_accuracy"}
     /\ (last.batch_size = 0 \/ last.data_size < last.batch_size)) =>
        /\ last.error = "ZeroDivisionError"
        /\ session[last.inst] = last.before
        /\ last.printed = <<>>
        /\ TrainingLen = last.events_before[1]
        /\ TestLen = last.events_before[2]

\* a train call on a dataset smaller than one batch, writers attached
C7_Witness ==
    /\ last.op = "train"
    /\ last.batch_size >= 1
    /\ last.data_size < last.batch_size
    /\ last.data_size >= 1
    /\ last.error = "ZeroDivisionError"
    /\ training_summary_writer[last.inst].attached

\* C8: run returns NumCells (probability, move) pairs, the pair of every flat
\* index i being (output[i], unflatten_coords(i)), every move once, in an
\* order of non-increasing probability.
C8_RunSorted ==
    last.op = "run" =>
        LET result == last.result
            probabilities == output(session[last.inst], extract(last.position))
        IN  /\ Len(result) = NumCells
            /\ \A i \in 0 .. NumCells - 1 :
                  Cardinality({k \in 1 .. Len(result) :
                                  result[k][2] = unflatten_coords(i)}) = 1
            /\ \A i \in 0 .. NumCells - 1 :
                  \E k \in 1 .. Len(result) :
                      result[k] = <<probabilities[i + 1], unflatten_coords(i)>>
            /\ \A k \in 1 .. Len(result) - 1 : result[k][1] >= result[k + 1][1]

\* a result whose most probable move is not the move of flat index 0
C8_Witness ==
    /\ last.op = "run"
    /\ Len(last.result) = NumCells
    /\ last.result[1][2] # unflatten_coords(0)
    /\ last.result[1][1] > last.result[NumCells][1]

\* C9 as stated: the cost of every successful train and check_accuracy pass
\* is finite, no logarithm of 0 having been taken.
C9_CostFinite ==
    (last.op \in {"train", "check_accuracy"} /\ last.error = "none") =>
        IsFinite(last.avg_cost)

ExpectedShapes(n) ==
    <<<<5, 5, NumInputPlanes, K>>>> \o [i \in 1 .. n |-> <<3, 3, K, K>>]
        \o <<<<1, 1, K, 1>>>>

\* C10 as stated: for every num_int_conv_layers >= 0 construction succeeds,
\* and from then on the network holds one 5x5 tensor, num_int_conv_layers 3x3
\* tensors, one 1x1 tensor and a bias of NumCells entries.
C10_FixedTopology ==
    \A i \in Insts :
        constructed[i] # "no" =>
            /\ constructed[i] = "ok"
            /\ Shapes(session[i]) = ExpectedShapes(num_int_conv_layers[i])
            /\ session[i].b_conv_final.shape = <<NumCells>>
            /\ Len(session[i].b_conv_final.val) = NumCells

====
